---- MODULE Spec2Model ----
(***************************************************************************)
(* A model of streamlit_upi_analyzer.py: the Streamlit script main() as a  *)
(* state machine over st.session_state, one action per script run.         *)
(*                                                                         *)
(* DataFrames are records [columns, rows]; rows are records holding the    *)
(* cells of the columns the analysis reads.  IP addresses are numbered     *)
(* 1, 2, ... in their sorted order (groupby sorts its keys).  Python       *)
(* floats are modelled as exact rationals [num, den]; IEEE-754 rounding is *)
(* not modelled.                                                           *)
(***************************************************************************)
EXTENDS Integers, Sequences, FiniteSets, TLC

(* ------------------------------ bounds --------------------------------- *)
\* rows of the enumerated login / auth / request files whose product feeds
\* the fraud score
MaxLoginRows == 2
MaxAuthRows == 1
MaxRequestRows == 1
\* rows of the enumerated files that vary one table at a time
MaxRows == 2

(* ------------------------- program constants --------------------------- *)
TOP_N == 10                 \* create_top_ips_chart(df4_requests, 10), head(10)
FAILED_LOGIN_LIMIT == 5     \* failed_by_ip > 5
SHORT_SESSION == 3          \* duration_minutes < 3
LONG_SESSION == 180         \* duration_minutes > 180
BRUTE_FORCE_LIMIT == 10     \* attempt_count > 10
MEDIUM_CUTOFF == 15         \* fraud_score < 15
HIGH_CUTOFF == 30           \* fraud_score < 30
CRITICAL_CUTOFF == 50       \* fraud_score < 50

VARIABLES
    files,          \* the five CSV files the user has at hand for the uploaders
    session_state,  \* st.session_state
    inputs,         \* the widget values the last script run read
    run             \* what the last script run rendered

vars == <<files, session_state, inputs, run>>

(* ------------------------------ pandas --------------------------------- *)
NaN == "NaN"

\* the strings read_csv turns into NaN (pandas' default na_values)
NA_VALUES == {"", "#N/A", "N/A", "NA", "NULL", "NaN", "None", "n/a", "nan", "null", "<NA>"}

ParseCell(cell) == IF cell \in NA_VALUES THEN NaN ELSE cell

\* a CSV file is [header, records]; the empty (zero-byte) file has no header
EmptyFile == [header |-> <<>>, records |-> <<>>]

ToSet(seq) == {seq[i] : i \in 1..Len(seq)}

\* the columns whose cells are digits: read_csv gives them dtype int64 (the
\* model writes a digit cell of a file as the integer it denotes)
INT_COLUMNS == {"ip_address", "session_id", "duration_minutes", "attempt_count"}

\* pd.read_csv of a file with a header line: the header's columns, one row per
\* record, text cells that spell an NA value parsed to NaN
read_csv(file) ==
    [columns |-> file.header,
     rows    |-> [i \in 1..Len(file.records) |->
                    [c \in ToSet(file.header) |->
                        IF c \in INT_COLUMNS
                        THEN file.records[i][c]
                        ELSE ParseCell(file.records[i][c])]]]

\* df.to_csv(index=False): the columns as the header line, one record per row,
\* NaN written as the empty field (na_rep = ''), every other cell as its text
to_csv(df) ==
    [header  |-> df.columns,
     records |-> [i \in 1..Len(df.rows) |->
                    [c \in ToSet(df.columns) |->
                        IF c \in INT_COLUMNS THEN df.rows[i][c]
                        ELSE IF df.rows[i][c] = NaN THEN "" ELSE df.rows[i][c]]]]

len(df) == Len(df.rows)

HasColumn(df, c) == c \in ToSet(df.columns)

\* df[mask]: boolean-mask selection keeps the matching rows in order
Select(df, mask) ==
    LET kept == SelectSeq([i \in 1..Len(df.rows) |-> i], LAMBDA i : mask[i])
    IN  [df EXCEPT !.rows = [j \in 1..Len(kept) |-> df.rows[kept[j]]]]

head(seq, n) == IF Len(seq) <= n THEN seq ELSE SubSeq(seq, 1, n)

\* groupby(col).size() / value_counts(): the number of rows per key
SizeBy(df, col) ==
    LET keys == {df.rows[i][col] : i \in 1..len(df)}
    IN  {[key |-> k,
          count |-> Cardinality({i \in 1..len(df) : df.rows[i][col] = k})] : k \in keys}

\* sort_values(ascending=False): every order of the entries with non-increasing
\* count; the order among equal counts is left to the sort
RECURSIVE DescOrders(_)
DescOrders(S) ==
    IF S = {} THEN {<<>>}
    ELSE LET top == {e \in S : \A o \in S : o.count <= e.count}
         IN  UNION {{<<e>> \o t : t \in DescOrders(S \ {e})} : e \in top}

(* ---------------------------- rationals -------------------------------- *)
\* a float is modelled as the rational it would be without rounding, kept in
\* lowest terms
RECURSIVE GCD(_, _)
GCD(a, b) == IF b = 0 THEN a ELSE GCD(b, a % b)

Normalize(num, den) ==
    LET g == GCD(num, den) IN [num |-> num \div g, den |-> den \div g]

Rat(n) == [num |-> n, den |-> 1]
RatLess(a, b) == a.num * b.den < b.num * a.den
RatLeq(a, b) == a.num * b.den <= b.num * a.den

\* count / total * 100
Percent(count, total) == Normalize(count * 100, total)

(* ---------------------- create_fraud_score_gauge ----------------------- *)
is_failed(df) == [i \in 1..Len(df.rows) |-> df.rows[i]["login_status"] = "failed"]
is_unauthenticated(df) == [i \in 1..Len(df.rows) |-> df.rows[i]["auth_status"] = "unauthenticated"]
is_attack(df) == [i \in 1..Len(df.rows) |-> df.rows[i]["request_type"] \in {"blank", "dos_attack"}]
\* mutant: the scan starts at the second row
is_dos_attack_after_first(df) ==
    [i \in 1..Len(df.rows) |-> i > 1 /\ df.rows[i]["request_type"] = "dos_attack"]

is_dos_attack(df) == [i \in 1..Len(df.rows) |-> df.rows[i]["request_type"] = "dos_attack"]
is_blank(df) == [i \in 1..Len(df.rows) |-> df.rows[i]["request_type"] = "blank"]

\* mutant: the comparison inverted, the rows that did not fail are counted
failed_login_rate_of_others(login_df) ==
    Percent(len(login_df) - len(Select(login_df, is_failed(login_df))), len(login_df))

failed_login_rate(login_df) ==
    Percent(len(Select(login_df, is_failed(login_df))), len(login_df))

unauth_rate(unauth_df) ==
    Percent(len(Select(unauth_df, is_unauthenticated(unauth_df))), len(unauth_df))

attack_rate(request_df) ==
    Percent(len(Select(request_df, is_attack(request_df))), len(request_df))

\* mutant: the weights of the first two rates exchanged
fraud_score_swapped(f, u, a) ==
    Normalize(4 * f.num * u.den * a.den + 3 * u.num * f.den * a.den
              + 3 * a.num * f.den * u.den,
              10 * f.den * u.den * a.den)

\* mutant: weights that sum to 1.1
fraud_score_overweight(f, u, a) ==
    Normalize(3 * f.num * u.den * a.den + 4 * u.num * f.den * a.den
              + 4 * a.num * f.den * u.den,
              10 * f.den * u.den * a.den)

\* failed_login_rate * 0.3 + unauth_rate * 0.4 + attack_rate * 0.3
fraud_score(f, u, a) ==
    Normalize(3 * f.num * u.den * a.den + 4 * u.num * f.den * a.den
              + 3 * a.num * f.den * u.den,
              10 * f.den * u.den * a.den)

\* mutant: the cutoffs compared with <=
risk_level_inclusive(score) ==
    IF RatLeq(score, Rat(MEDIUM_CUTOFF)) THEN "LOW"
    ELSE IF RatLeq(score, Rat(HIGH_CUTOFF)) THEN "MEDIUM"
    ELSE IF RatLeq(score, Rat(CRITICAL_CUTOFF)) THEN "HIGH"
    ELSE "CRITICAL"

risk_level(score) ==
    IF RatLess(score, Rat(MEDIUM_CUTOFF)) THEN "LOW"
    ELSE IF RatLess(score, Rat(HIGH_CUTOFF)) THEN "MEDIUM"
    ELSE IF RatLess(score, Rat(CRITICAL_CUTOFF)) THEN "HIGH"
    ELSE "CRITICAL"

NoScore == [num |-> 0, den |-> 1]

\* The three rate lines run in order; each indexes its column first (KeyError
\* when the column is missing) and then divides by len (ZeroDivisionError when
\* the table has no rows).
GaugeError(login_df, unauth_df, request_df) ==
    IF ~HasColumn(login_df, "login_status") THEN "KeyError"
    ELSE IF len(login_df) = 0 THEN "ZeroDivisionError"
    ELSE IF ~HasColumn(unauth_df, "auth_status") THEN "KeyError"
    ELSE IF len(unauth_df) = 0 THEN "ZeroDivisionError"
    ELSE IF ~HasColumn(request_df, "request_type") THEN "KeyError"
    ELSE IF len(request_df) = 0 THEN "ZeroDivisionError"
    ELSE "none"

create_fraud_score_gauge(login_df, unauth_df, request_df) ==
    LET err == GaugeError(login_df, unauth_df, request_df)
        score == fraud_score(failed_login_rate(login_df), unauth_rate(unauth_df),
                             attack_rate(request_df))
    IN  IF err # "none"
        THEN [err |-> err, fraud_score |-> NoScore, risk_level |-> "none"]
        ELSE [err |-> "none", fraud_score |-> score, risk_level |-> risk_level(score)]

(* ------------------------- anomaly detection --------------------------- *)
\* Each step gives [err, ...]; err is the exception that ends the script run
\* at that step ("none" when the step completes).

HasColumns(df, cols) == \A c \in cols : HasColumn(df, c)

\* failed_by_ip[failed_by_ip > 5]
failed_by_ip(df1_login) ==
    IF HasColumns(df1_login, {"login_status", "ip_address"})
    THEN SizeBy(Select(df1_login, is_failed(df1_login)), "ip_address")
    ELSE {}

\* mutant: the failed-login limit compared with >=
critical_ips_inclusive(df1_login) ==
    {e \in failed_by_ip(df1_login) : e.count >= FAILED_LOGIN_LIMIT}

critical_ips(df1_login) ==
    {e \in failed_by_ip(df1_login) : e.count > FAILED_LOGIN_LIMIT}

\* expander "Critical: Failed Login Patterns"; sorted is the order
\* sort_values(ascending=False) produced
FailedLoginPatterns(df1_login, sorted) ==
    IF ~HasColumns(df1_login, {"login_status", "ip_address"})
    THEN [err |-> "KeyError", critical_ips |-> <<>>, message |-> "none"]
    ELSE [err |-> "none", critical_ips |-> sorted,
          message |-> IF Len(sorted) > 0
                      THEN "Found IPs with >5 failed login attempts"
                      ELSE "No critical failed login patterns detected"]

\* mutant: the short limit compared with <=
is_suspicious_session_inclusive(df) ==
    [i \in 1..Len(df.rows) |->
        \/ df.rows[i]["duration_minutes"] <= SHORT_SESSION
        \/ df.rows[i]["duration_minutes"] > LONG_SESSION]

is_suspicious_session(df) ==
    [i \in 1..Len(df.rows) |->
        \/ df.rows[i]["duration_minutes"] < SHORT_SESSION
        \/ df.rows[i]["duration_minutes"] > LONG_SESSION]

\* expander "Warning: Suspicious Session Durations"
SuspiciousSessionDurations(df2_duration) ==
    IF ~HasColumn(df2_duration, "duration_minutes")
    THEN [err |-> "KeyError", suspicious_sessions |-> <<>>, count |-> 0,
          shown |-> <<>>, message |-> "none"]
    ELSE LET suspicious_sessions == Select(df2_duration, is_suspicious_session(df2_duration)).rows
         IN  [err |-> "none", suspicious_sessions |-> suspicious_sessions,
              count |-> Len(suspicious_sessions),
              shown |-> IF Len(suspicious_sessions) > 0
                        THEN head(suspicious_sessions, 10) ELSE <<>>,
              message |-> IF Len(suspicious_sessions) > 0
                          THEN "Found suspicious sessions"
                          ELSE "No suspicious session durations detected"]

\* mutant: the attempt limit compared with >=
is_brute_force_inclusive(df) ==
    [i \in 1..Len(df.rows) |->
        /\ df.rows[i]["auth_status"] = "unauthenticated"
        /\ df.rows[i]["attempt_count"] >= BRUTE_FORCE_LIMIT]

is_brute_force(df) ==
    [i \in 1..Len(df.rows) |->
        /\ df.rows[i]["auth_status"] = "unauthenticated"
        /\ df.rows[i]["attempt_count"] > BRUTE_FORCE_LIMIT]

\* expander "Critical: Brute Force Attempts"
BruteForceAttempts(df3_unauth) ==
    IF ~HasColumns(df3_unauth, {"auth_status", "attempt_count"})
    THEN [err |-> "KeyError", brute_force |-> <<>>, message |-> "none"]
    ELSE LET brute_force == Select(df3_unauth, is_brute_force(df3_unauth)).rows
         IN  [err |-> "none", brute_force |-> brute_force,
              message |-> IF Len(brute_force) > 0
                          THEN "Detected potential brute force attacks!"
                          ELSE "No brute force patterns detected"]

\* dos_attacks.groupby('ip_address').size()
dos_by_ip(df4_requests) ==
    IF HasColumns(df4_requests, {"request_type", "ip_address"})
    THEN SizeBy(Select(df4_requests, is_dos_attack(df4_requests)), "ip_address")
    ELSE {}

\* expander "Critical: DOS Attack Patterns"; sorted is the order
\* sort_values(ascending=False) produced, cut by head(10)
DosAttackPatterns(df4_requests, sorted) ==
    IF ~HasColumn(df4_requests, "request_type")
    THEN [err |-> "KeyError", dos_attacks |-> <<>>, dos_by_ip |-> <<>>,
          message |-> "none"]
    ELSE LET dos_attacks == Select(df4_requests, is_dos_attack(df4_requests)).rows
         IN  IF Len(dos_attacks) = 0
             THEN [err |-> "none", dos_attacks |-> dos_attacks, dos_by_ip |-> <<>>,
                   message |-> "No DOS attacks detected"]
             ELSE IF ~HasColumn(df4_requests, "ip_address")
             THEN [err |-> "KeyError", dos_attacks |-> <<>>, dos_by_ip |-> <<>>,
                   message |-> "none"]
             ELSE [err |-> "none", dos_attacks |-> dos_attacks,
                   dos_by_ip |-> head(sorted, 10),
                   message |-> "Detected DOS attacks!"]

\* mutant: the selection of the Service Analysis list used for the anomaly
is_suspended_or_idle(df) ==
    [i \in 1..Len(df.rows) |-> df.rows[i]["status"] \in {"suspended", "inactive"}]

is_suspended(df) == [i \in 1..Len(df.rows) |-> df.rows[i]["status"] = "suspended"]

\* mutant: the length test written >= 0, an empty selection reported as found
SuspendedServices_found_when_empty(df5_services) ==
    IF ~HasColumn(df5_services, "status")
    THEN [err |-> "KeyError", suspended_services |-> <<>>, shown |-> <<>>,
          message |-> "none"]
    ELSE LET suspended_services == Select(df5_services, is_suspended(df5_services)).rows
         IN  [err |-> "none", suspended_services |-> suspended_services,
              shown |-> head(suspended_services, 10),
              message |-> "Found suspended services"]

\* expander "Warning: Suspended Services"
SuspendedServices(df5_services) ==
    IF ~HasColumn(df5_services, "status")
    THEN [err |-> "KeyError", suspended_services |-> <<>>, shown |-> <<>>,
          message |-> "none"]
    ELSE LET suspended_services == Select(df5_services, is_suspended(df5_services)).rows
         IN  [err |-> "none", suspended_services |-> suspended_services,
              shown |-> IF Len(suspended_services) > 0
                        THEN head(suspended_services, 10) ELSE <<>>,
              message |-> IF Len(suspended_services) > 0
                          THEN "Found suspended services"
                          ELSE "No suspended services found"]

(* ------------------------- create_top_ips_chart ------------------------ *)
\* mutant: only dos_attack requests are counted
attack_counts_dos_only(df) ==
    IF HasColumns(df, {"request_type", "ip_address"})
    THEN SizeBy(Select(df, is_dos_attack(df)), "ip_address")
    ELSE {}

\* suspicious_df['ip_address'].value_counts()
attack_counts(df) ==
    IF HasColumns(df, {"request_type", "ip_address"})
    THEN SizeBy(Select(df, is_attack(df)), "ip_address")
    ELSE {}

\* sorted is the descending order value_counts() produced; head(top_n) cuts it
create_top_ips_chart(df, top_n, sorted) ==
    IF ~HasColumns(df, {"request_type", "ip_address"})
    THEN [err |-> "KeyError", top_ips |-> <<>>]
    ELSE [err |-> "none", top_ips |-> head(sorted, top_n)]

(* ------------- create_login_trend_chart, create_attack_heatmap --------- *)
\* df['hour'] = ...: the column is added to the table the name refers to
AddColumn(df, c) ==
    [df EXCEPT !.columns = IF c \in ToSet(@) THEN @ ELSE Append(@, c)]

\* mutant: df_copy = df, the columns are added to the caller's table
create_login_trend_chart_in_place(df) ==
    [df |-> AddColumn(df, "hour"), df_copy |-> AddColumn(df, "hour")]

\* df_copy = df.copy(); df_copy['hour'] = ...: df is the caller's table after
\* the call, df_copy the table the chart is drawn from
create_login_trend_chart(df) ==
    [df |-> df, df_copy |-> AddColumn(df, "hour")]

create_attack_heatmap(df) ==
    [df |-> df, df_copy |-> AddColumn(AddColumn(df, "hour"), "day")]

(* ------------------------- tab 2: detailed analysis -------------------- *)
ANALYSIS_TYPES ==
    {"Login Analysis", "Session Analysis", "Authentication Analysis",
     "Attack Analysis", "Service Analysis"}

is_short(df) == [i \in 1..Len(df.rows) |-> df.rows[i]["duration_minutes"] < SHORT_SESSION]
is_long(df) == [i \in 1..Len(df.rows) |-> df.rows[i]["duration_minutes"] > LONG_SESSION]
is_suspended_or_inactive(df) == [i \in 1..Len(df.rows) |-> df.rows[i]["status"] \in {"suspended", "inactive"}]

NoDetail ==
    [err |-> "none", suspicious_count |-> 0, short_count |-> 0, long_count |-> 0,
     suspicious_shown |-> <<>>, top_ips |-> <<>>, suspended_shown |-> <<>>]

\* the branch of the selectbox that runs; the columns tab 1 has already read
\* are present when this step is reached
DetailedAnalysis(analysis_type, df2_duration, df3_unauth, df4_requests, df5_services, sorted_top) ==
    CASE analysis_type = "Login Analysis" -> NoDetail
      [] analysis_type = "Session Analysis" ->
            LET suspicious == Select(df2_duration, is_suspicious_session(df2_duration)).rows
            IN  [NoDetail EXCEPT
                    !.suspicious_count = Len(suspicious),
                    !.short_count = len(Select(df2_duration, is_short(df2_duration))),
                    !.long_count = len(Select(df2_duration, is_long(df2_duration))),
                    !.suspicious_shown = head(suspicious, 10)]
      [] analysis_type = "Authentication Analysis" ->
            IF HasColumns(df3_unauth, {"failure_reason", "attempt_count"})
            THEN NoDetail ELSE [NoDetail EXCEPT !.err = "KeyError"]
      [] analysis_type = "Attack Analysis" ->
            LET chart == create_top_ips_chart(df4_requests, TOP_N, sorted_top)
            IN  [NoDetail EXCEPT !.err = chart.err, !.top_ips = chart.top_ips]
      [] analysis_type = "Service Analysis" ->
            IF HasColumn(df5_services, "status")
            THEN [NoDetail EXCEPT !.suspended_shown =
                    head(Select(df5_services, is_suspended_or_inactive(df5_services)).rows, 10)]
            ELSE [NoDetail EXCEPT !.err = "KeyError"]

(* --------------------------- the dashboard ------------------------------ *)
\* the steps of the dashboard in script order
STEPS ==
    <<"gauge", "key_metrics", "detailed_analysis", "export", "failed_login",
      "session", "brute_force", "dos", "suspended">>

NoRun ==
    [outcome |-> "welcome", error |-> "none", rendered |-> {}, messages |-> {},
     analysis_type |-> "none",
     fraud_score |-> NoScore, risk_level |-> "none",
     detail |-> NoDetail,
     critical_ips |-> <<>>,
     suspicious_sessions |-> <<>>, suspicious_count |-> 0, suspicious_shown |-> <<>>,
     brute_force |-> <<>>,
     dos_attacks |-> <<>>, dos_by_ip |-> <<>>,
     suspended_services |-> <<>>]

Min(S) == CHOOSE x \in S : \A y \in S : x <= y

\* the index of the first step that raises, or one past the last step
FirstFailure(errs) ==
    LET failing == {i \in 1..Len(errs) : errs[i] # "none"}
    IN  IF failing = {} THEN Len(errs) + 1 ELSE Min(failing)

\* what a run shows when its steps gave gauge, detail, a1 .. a5 and step k is
\* the first that raised: the steps before k are rendered, the exception ends
\* the run at step k
Rendered(k, errs, gauge, detail, a1, a2, a3, a4, a5, analysis_type, before) ==
    [outcome |-> IF k > Len(errs) THEN "dashboard" ELSE "exception",
     error |-> IF k > Len(errs) THEN "none" ELSE errs[k],
     rendered |-> {STEPS[i] : i \in 1..(k - 1)},
     messages |-> before
                  \cup (IF 5 < k THEN {a1.message} ELSE {})
                  \cup (IF 6 < k THEN {a2.message} ELSE {})
                  \cup (IF 7 < k THEN {a3.message} ELSE {})
                  \cup (IF 8 < k THEN {a4.message} ELSE {})
                  \cup (IF 9 < k THEN {a5.message} ELSE {}),
     analysis_type |-> IF 2 < k THEN analysis_type ELSE "none",
     fraud_score |-> IF 1 < k THEN gauge.fraud_score ELSE NoScore,
     risk_level |-> IF 1 < k THEN gauge.risk_level ELSE "none",
     detail |-> IF 3 < k THEN detail ELSE NoDetail,
     critical_ips |-> IF 5 < k THEN a1.critical_ips ELSE <<>>,
     suspicious_sessions |-> IF 6 < k THEN a2.suspicious_sessions ELSE <<>>,
     suspicious_count |-> IF 6 < k THEN a2.count ELSE 0,
     suspicious_shown |-> IF 6 < k THEN a2.shown ELSE <<>>,
     brute_force |-> IF 7 < k THEN a3.brute_force ELSE <<>>,
     dos_attacks |-> IF 8 < k THEN a4.dos_attacks ELSE <<>>,
     dos_by_ip |-> IF 8 < k THEN a4.dos_by_ip ELSE <<>>,
     suspended_services |-> IF 9 < k THEN a5.suspended_services ELSE <<>>]

Steps(gauge, key_metrics, detail, a1, a2, a3, a4, a5, analysis_type, before) ==
    Rendered(FirstFailure(<<gauge.err, key_metrics, detail.err, "none", a1.err,
                            a2.err, a3.err, a4.err, a5.err>>),
             <<gauge.err, key_metrics, detail.err, "none", a1.err, a2.err, a3.err,
               a4.err, a5.err>>,
             gauge, detail, a1, a2, a3, a4, a5, analysis_type, before)

\* tab 1 below the gauge: avg_duration reads duration_minutes (the other
\* columns read there are those of the gauge)
KeyMetrics(df2_duration) ==
    IF HasColumn(df2_duration, "duration_minutes") THEN "none" ELSE "KeyError"

\* tab 2 runs only when tab 1 has completed
DetailAfter(gauge, key_metrics, analysis_type, df2_duration, df3_unauth, df4_requests, df5_services, sorted_top) ==
    IF gauge.err = "none" /\ key_metrics = "none"
    THEN DetailedAnalysis(analysis_type, df2_duration, df3_unauth, df4_requests,
                          df5_services, sorted_top)
    ELSE NoDetail

\* the body of "if st.session_state.get('data_loaded', False):" over the tables
\* read back from session state; ord holds the orders the three descending
\* sorts produced; before is what the run has already shown
Dashboard(df1_login, df2_duration, df3_unauth, df4_requests, df5_services, analysis_type, ord, before) ==
    Steps(create_fraud_score_gauge(df1_login, df3_unauth, df4_requests),
          KeyMetrics(df2_duration),
          DetailAfter(create_fraud_score_gauge(df1_login, df3_unauth, df4_requests),
                      KeyMetrics(df2_duration), analysis_type, df2_duration,
                      df3_unauth, df4_requests, df5_services, ord.top),
          FailedLoginPatterns(df1_login, ord.critical),
          SuspiciousSessionDurations(df2_duration),
          BruteForceAttempts(df3_unauth),
          DosAttackPatterns(df4_requests, ord.dos),
          SuspendedServices(df5_services),
          analysis_type, before)

(* ----------------------------- the inputs ------------------------------ *)
\* the columns of each table that the gauge, the Session, Attack and Service
\* branches and the anomaly report read; the columns read only by charts and
\* counters (timestamp, user_id, browser, ...) are taken to be present and are
\* left out of the rows
LOGIN_COLUMNS == <<"ip_address", "login_status">>
SESSION_COLUMNS == <<"session_id", "duration_minutes">>
UNAUTH_COLUMNS == <<"ip_address", "auth_status", "attempt_count", "failure_reason">>
REQUEST_COLUMNS == <<"ip_address", "request_type">>
SERVICE_COLUMNS == <<"status">>

Rep(n, x) == [i \in 1..n |-> x]
SeqsUpTo(S, n) == UNION {[1..k -> S] : k \in 0..n}
SeqsOver(sets, n) == UNION {SeqsUpTo(S, n) : S \in sets}

LoginRow(ip, status) == [ip_address |-> ip, login_status |-> status]
AuthRow(ip, status, count) ==
    [ip_address |-> ip, auth_status |-> status, attempt_count |-> count,
     failure_reason |-> IF status = "authenticated" THEN "None" ELSE "Invalid_OTP"]
RequestRow(ip, type) == [ip_address |-> ip, request_type |-> type]
ServiceRow(status) == [status |-> status]
SessionRows(durations) ==
    [i \in 1..Len(durations) |-> [session_id |-> i, duration_minutes |-> durations[i]]]

LoginFile(records) == [header |-> LOGIN_COLUMNS, records |-> records]
SessionFile(records) == [header |-> SESSION_COLUMNS, records |-> records]
UnauthFile(records) == [header |-> UNAUTH_COLUMNS, records |-> records]
RequestFile(records) == [header |-> REQUEST_COLUMNS, records |-> records]
ServiceFile(records) == [header |-> SERVICE_COLUMNS, records |-> records]

BaseLogin ==
    LoginFile(<<LoginRow(1, "failed"), LoginRow(1, "success"), LoginRow(2, "success")>>)
BaseSession == SessionFile(SessionRows(<<30, 2>>))
BaseUnauth ==
    UnauthFile(<<AuthRow(1, "authenticated", 1), AuthRow(2, "unauthenticated", 11)>>)
BaseRequest ==
    RequestFile(<<RequestRow(1, "normal"), RequestRow(2, "dos_attack"),
                  RequestRow(2, "blank")>>)
BaseService == ServiceFile(<<ServiceRow("active"), ServiceRow("suspended")>>)

Dataset(l, d, u, r, s) ==
    [login |-> l, duration |-> d, unauth |-> u, request |-> r, service |-> s]

\* a table of one row, all of its rows matching or none
Single(pair) == pair \in {<<1, 0>>, <<0, 1>>}

\* files for the score: every count of rows of each kind within the bounds in
\* one of the three tables, the other two holding a single row
ScoreDatasets ==
    {Dataset(LoginFile(Rep(c[1], LoginRow(1, "failed")) \o Rep(c[2], LoginRow(1, "success"))),
             BaseSession,
             UnauthFile(Rep(c[3], AuthRow(1, "unauthenticated", 1))
                        \o Rep(c[4], AuthRow(1, "authenticated", 1))),
             RequestFile(Rep(c[5], RequestRow(1, "dos_attack"))
                         \o Rep(c[6], RequestRow(1, "normal"))),
             BaseService) :
        c \in {d \in (0..MaxLoginRows) \X (0..MaxLoginRows)
                      \X (0..MaxAuthRows) \X (0..MaxAuthRows)
                      \X (0..MaxRequestRows) \X (0..MaxRequestRows) :
                    /\ d[1] + d[2] <= MaxLoginRows
                    /\ d[3] + d[4] <= MaxAuthRows
                    /\ d[5] + d[6] <= MaxRequestRows
                    /\ \/ Single(<<d[1], d[2]>>) /\ Single(<<d[3], d[4]>>)
                       \/ Single(<<d[1], d[2]>>) /\ Single(<<d[5], d[6]>>)
                       \/ Single(<<d[3], d[4]>>) /\ Single(<<d[5], d[6]>>)}}

\* the example of the specification: 8 of 100, 60 of 200, 30 of 150
ExampleDataset ==
    Dataset(LoginFile(Rep(8, LoginRow(1, "failed")) \o Rep(92, LoginRow(1, "success"))),
            BaseSession,
            UnauthFile(Rep(60, AuthRow(1, "unauthenticated", 1))
                       \o Rep(140, AuthRow(1, "authenticated", 1))),
            RequestFile(Rep(12, RequestRow(1, "blank")) \o Rep(18, RequestRow(1, "dos_attack"))
                        \o Rep(120, RequestRow(1, "normal"))),
            BaseService)

\* a score of exactly 50: all logins failed, half of the attempts unauthenticated
FiftyDataset ==
    Dataset(LoginFile(<<LoginRow(1, "failed")>>), BaseSession,
            UnauthFile(<<AuthRow(1, "unauthenticated", 1), AuthRow(1, "authenticated", 1)>>),
            RequestFile(<<RequestRow(1, "normal")>>), BaseService)

\* login files: every short file of failed logins of one IP and logins of
\* another IP with one other status, and files with failed counts around the
\* limit
LoginFiles ==
    {LoginFile(l) :
        l \in SeqsOver({{LoginRow(1, "failed"), LoginRow(2, "success")},
                        {LoginRow(1, "failed"), LoginRow(2, "locked")}}, MaxRows)}
    \cup
    {LoginFile(Rep(a, LoginRow(1, "failed")) \o Rep(b, LoginRow(2, "failed"))
               \o Rep(FAILED_LOGIN_LIMIT + 2, LoginRow(3, "success"))
               \o Rep(FAILED_LOGIN_LIMIT, LoginRow(4, "failed"))
               \o <<LoginRow(4, "success")>>) :
        a \in {0, FAILED_LOGIN_LIMIT + 1, FAILED_LOGIN_LIMIT + 2},
        b \in {FAILED_LOGIN_LIMIT, FAILED_LOGIN_LIMIT + 1, FAILED_LOGIN_LIMIT + 2}}

\* session files: every short file over the durations at the short limit and
\* at the long limit, and one with more suspicious sessions than the table
\* shows
SessionFiles ==
    {SessionFile(SessionRows(d)) :
        d \in SeqsOver({{SHORT_SESSION - 1, SHORT_SESSION},
                        {LONG_SESSION, LONG_SESSION + 1}}, MaxRows)}
    \cup
    {SessionFile(SessionRows(Rep(6, 0) \o <<SHORT_SESSION, 60, LONG_SESSION>>
                             \o Rep(6, 480)))}

\* attempt files: every short file of unauthenticated attempts at the limit
\* and above it, and of attempts above it with either status
UnauthFiles ==
    {UnauthFile(u) :
        u \in SeqsOver({{AuthRow(1, "unauthenticated", BRUTE_FORCE_LIMIT),
                         AuthRow(1, "unauthenticated", BRUTE_FORCE_LIMIT + 1)},
                        {AuthRow(1, "authenticated", BRUTE_FORCE_LIMIT + 1),
                         AuthRow(1, "unauthenticated", BRUTE_FORCE_LIMIT + 1)}}, MaxRows)}

\* request files: every short file over two IPs, and one with more attacking
\* IPs than the top list holds: IP i sends i dos_attack and 2 * (n - i) blank
\* requests
ManyIPs == TOP_N + 1

RECURSIVE Concat(_)
Concat(seqs) == IF seqs = <<>> THEN <<>> ELSE Head(seqs) \o Concat(Tail(seqs))

RequestFiles ==
    {RequestFile(r) :
        r \in SeqsOver({{RequestRow(1, "dos_attack"), RequestRow(2, "normal")},
                        {RequestRow(1, "blank"), RequestRow(2, "dos_attack")}}, MaxRows)}
    \cup
    {RequestFile(Concat([i \in 1..ManyIPs |->
                            Rep(i, RequestRow(i, "dos_attack"))
                            \o Rep(2 * (ManyIPs - i), RequestRow(i, "blank"))
                            \o <<RequestRow(i, "normal")>>]))}

ServiceFiles ==
    {ServiceFile(sv) :
        sv \in SeqsOver({{ServiceRow("active"), ServiceRow("suspended")},
                         {ServiceRow("inactive"), ServiceRow("suspended")},
                         {ServiceRow("pending")}}, MaxRows)}

\* files with a wrong header: a column the analysis reads is named otherwise
MalformedDatasets ==
    {Dataset([header |-> <<"ip_address", "status">>,
              records |-> <<[ip_address |-> 1, status |-> "failed"]>>],
             BaseSession, BaseUnauth, BaseRequest, BaseService),
     Dataset(BaseLogin,
             [header |-> <<"session_id", "length">>,
              records |-> <<[session_id |-> 1, length |-> "2 min"]>>],
             BaseUnauth, BaseRequest, BaseService),
     Dataset(BaseLogin, BaseSession,
             [header |-> <<"ip_address", "auth_status", "attempts", "failure_reason">>,
              records |-> <<[ip_address |-> 1, auth_status |-> "unauthenticated",
                             attempts |-> "eleven", failure_reason |-> "Invalid_OTP"]>>],
             BaseRequest, BaseService),
     Dataset(BaseLogin, BaseSession, BaseUnauth,
             [header |-> <<"ip", "request_type">>,
              records |-> <<[ip |-> "10.0.0.1", request_type |-> "dos_attack"]>>],
             BaseService),
     Dataset(BaseLogin, BaseSession, BaseUnauth, BaseRequest,
             [header |-> <<"state">>, records |-> <<[state |-> "suspended"]>>]),
     Dataset(BaseLogin, BaseSession, EmptyFile, BaseRequest, BaseService)}

\* files in which no category of the anomaly report has a match, the session
\* and service files with rows and without
QuietDatasets ==
    {Dataset(BaseLogin, d,
             UnauthFile(<<AuthRow(1, "authenticated", 1),
                          AuthRow(2, "unauthenticated", BRUTE_FORCE_LIMIT)>>),
             RequestFile(<<RequestRow(1, "normal"), RequestRow(2, "blank")>>),
             sv) :
        d \in {SessionFile(SessionRows(<<SHORT_SESSION, 30, LONG_SESSION>>)),
               SessionFile(<<>>)},
        sv \in {ServiceFile(<<ServiceRow("active"), ServiceRow("inactive"),
                              ServiceRow("pending")>>),
                ServiceFile(<<>>)}}

Datasets ==
    ScoreDatasets \cup {ExampleDataset, FiftyDataset} \cup MalformedDatasets
    \cup QuietDatasets
    \cup {Dataset(l, BaseSession, BaseUnauth, BaseRequest, BaseService) : l \in LoginFiles}
    \cup {Dataset(BaseLogin, d, BaseUnauth, BaseRequest, BaseService) : d \in SessionFiles}
    \cup {Dataset(BaseLogin, BaseSession, u, BaseRequest, BaseService) : u \in UnauthFiles}
    \cup {Dataset(BaseLogin, BaseSession, BaseUnauth, r, BaseService) : r \in RequestFiles}
    \cup {Dataset(BaseLogin, BaseSession, BaseUnauth, BaseRequest, s) : s \in ServiceFiles}

(* ----------------------- generate_synthetic_data ----------------------- *)
\* The generator is seeded and cached: every call returns the same five
\* tables.  The model keeps its value ranges and its sort by time, scaled
\* down from 500 rows per table.
generate_synthetic_data ==
    [df1_login |->
        [columns |-> LOGIN_COLUMNS,
         rows |-> Rep(6, LoginRow(3, "failed")) \o Rep(14, LoginRow(1, "success"))
                  \o <<LoginRow(2, "failed"), LoginRow(3, "success")>>
                  \o Rep(18, LoginRow(2, "success"))],
     df2_duration |->
        [columns |-> SESSION_COLUMNS,
         rows |-> SessionRows(<<5, 60, 1, 3, 180, 480, 30, 2, 45, 12>>)],
     df3_unauth |->
        [columns |-> UNAUTH_COLUMNS,
         rows |-> Rep(7, AuthRow(1, "authenticated", 1))
                  \o <<AuthRow(3, "unauthenticated", 15), AuthRow(3, "unauthenticated", 10),
                       AuthRow(4, "unauthenticated", 1)>>],
     df4_requests |->
        [columns |-> REQUEST_COLUMNS,
         rows |-> Rep(15, RequestRow(1, "normal"))
                  \o <<RequestRow(3, "blank"), RequestRow(4, "blank"), RequestRow(3, "dos_attack"),
                       RequestRow(3, "dos_attack"), RequestRow(4, "dos_attack")>>],
     df5_services |->
        [columns |-> SERVICE_COLUMNS,
         rows |-> <<ServiceRow("active"), ServiceRow("active"), ServiceRow("inactive"),
                    ServiceRow("suspended"), ServiceRow("pending"), ServiceRow("active")>>]]

(* ------------------------------- main ---------------------------------- *)
UPLOAD == "Upload CSV Files"
GENERATE == "Generate Synthetic Data"

SLOTS == {"login", "duration", "unauth", "request", "service"}
TABLE_KEYS == {"df1_login", "df2_duration", "df3_unauth", "df4_requests", "df5_services"}

\* a file_uploader's value: <<>> (None) or <<file>>
NoUploads == [slot \in SLOTS |-> <<>>]
Uploaded(missing) == [slot \in SLOTS |-> IF slot \in missing THEN <<>> ELSE <<files[slot]>>]

\* mutant: only the first uploader is tested
all_first_only(uploaded) == uploaded["login"] # <<>>

\* all([uploaded_login, uploaded_duration, ...])
all(uploaded) == \A slot \in SLOTS : uploaded[slot] # <<>>

\* st.session_state.get(key, default)
Get(state, key, default) == IF key \in DOMAIN state THEN state[key] ELSE default

\* mutant: a services table already in session state is kept
StoreTables_keeping_services(state, tables) ==
    [key \in DOMAIN state \cup TABLE_KEYS \cup {"data_loaded"} |->
        IF key = "data_loaded" THEN TRUE
        ELSE IF key = "df5_services" /\ key \in DOMAIN state THEN state[key]
        ELSE IF key \in TABLE_KEYS THEN tables[key]
        ELSE state[key]]

\* the six assignments "st.session_state[...] = ..."
StoreTables(state, tables) ==
    [key \in DOMAIN state \cup TABLE_KEYS \cup {"data_loaded"} |->
        IF key = "data_loaded" THEN TRUE
        ELSE IF key \in TABLE_KEYS THEN tables[key]
        ELSE state[key]]

\* the five pd.read_csv calls of the upload branch
ReadUploads(uploaded) ==
    [df1_login |-> read_csv(uploaded["login"][1]),
     df2_duration |-> read_csv(uploaded["duration"][1]),
     df3_unauth |-> read_csv(uploaded["unauth"][1]),
     df4_requests |-> read_csv(uploaded["request"][1]),
     df5_services |-> read_csv(uploaded["service"][1])]

\* read_csv raises ValueError on None and EmptyDataError on a file with no
\* header line
ReadError(uploaded) ==
    IF \E slot \in SLOTS : uploaded[slot] = <<>> THEN "ValueError"
    ELSE IF \E slot \in SLOTS : uploaded[slot][1] = EmptyFile THEN "EmptyDataError"
    ELSE "none"

\* The dashboard works on the DataFrame objects held in session state, so
\* what a chart function does to its argument is done to the stored table.
\* Tab 1 draws the login trend chart once the gauge and the key metrics are
\* through; Attack Analysis draws the heatmap after the top-IP chart.
TablesAfterRender(state, analysis_type) ==
    IF ~Get(state, "data_loaded", FALSE) THEN state
    ELSE IF GaugeError(state["df1_login"], state["df3_unauth"], state["df4_requests"]) # "none"
            \/ KeyMetrics(state["df2_duration"]) # "none"
    THEN state
    ELSE IF analysis_type = "Attack Analysis"
            /\ HasColumns(state["df4_requests"], {"request_type", "ip_address"})
    THEN [state EXCEPT
            !["df1_login"] = create_login_trend_chart(@).df,
            !["df4_requests"] = create_attack_heatmap(@).df]
    ELSE [state EXCEPT !["df1_login"] = create_login_trend_chart(@).df]

\* "from ydata_profiling import ProfileReport" binds the name only when the
\* import succeeds; the call at line 716 is not guarded by the flag, so it
\* raises NameError when the name is unbound.  What the library does with the
\* table is not modelled: with the name bound the call returns a report.
ProfileReport(PROFILING_AVAILABLE) ==
    IF PROFILING_AVAILABLE THEN "none" ELSE "NameError"

\* tab 3 of a run whose other tabs give the run d: the button is looked at
\* only when tab 2 has completed, and an exception in its body ends the run
\* before the export tab
ProfilingReports(d, profile_button, PROFILING_AVAILABLE, before) ==
    IF ~profile_button \/ "detailed_analysis" \notin d.rendered THEN d
    ELSE IF ProfileReport(PROFILING_AVAILABLE) # "none"
    THEN [NoRun EXCEPT
            !.outcome = "exception",
            !.error = ProfileReport(PROFILING_AVAILABLE),
            !.rendered = {"gauge", "key_metrics", "detailed_analysis"},
            !.messages = before,
            !.analysis_type = d.analysis_type,
            !.fraud_score = d.fraud_score,
            !.risk_level = d.risk_level,
            !.detail = d.detail]
    ELSE [d EXCEPT !.messages = @ \cup {"Report generated successfully!"}]

\* mutant: the dashboard reads the tables the run found in session state when
\* it started, not those it has just stored
Render_from_earlier_tables(state, analysis_type, before, profile_button, PROFILING_AVAILABLE) ==
    IF Get(state, "data_loaded", FALSE) /\ Get(session_state, "data_loaded", FALSE)
    THEN \E critical \in DescOrders(critical_ips(session_state["df1_login"])),
            dos \in DescOrders(dos_by_ip(session_state["df4_requests"])),
            top \in DescOrders(attack_counts(session_state["df4_requests"])) :
            run' = ProfilingReports(
                     Dashboard(session_state["df1_login"], session_state["df2_duration"],
                               session_state["df3_unauth"], session_state["df4_requests"],
                               session_state["df5_services"], analysis_type,
                               [critical |-> critical, dos |-> dos, top |-> top], before),
                     profile_button, PROFILING_AVAILABLE, before)
    ELSE IF Get(state, "data_loaded", FALSE)
    THEN \E critical \in DescOrders(critical_ips(state["df1_login"])),
            dos \in DescOrders(dos_by_ip(state["df4_requests"])),
            top \in DescOrders(attack_counts(state["df4_requests"])) :
            run' = ProfilingReports(
                     Dashboard(state["df1_login"], state["df2_duration"],
                               state["df3_unauth"], state["df4_requests"],
                               state["df5_services"], analysis_type,
                               [critical |-> critical, dos |-> dos, top |-> top], before),
                     profile_button, PROFILING_AVAILABLE, before)
    ELSE run' = [NoRun EXCEPT !.messages = before \cup {"Please select a data source"}]

\* the script below the load: the dashboard when data_loaded, else the welcome
\* screen
Render(state, analysis_type, before, profile_button, PROFILING_AVAILABLE) ==
    IF Get(state, "data_loaded", FALSE)
    THEN \E critical \in DescOrders(critical_ips(state["df1_login"])),
            dos \in DescOrders(dos_by_ip(state["df4_requests"])),
            top \in DescOrders(attack_counts(state["df4_requests"])) :
            run' = ProfilingReports(
                     Dashboard(state["df1_login"], state["df2_duration"],
                               state["df3_unauth"], state["df4_requests"],
                               state["df5_services"], analysis_type,
                               [critical |-> critical, dos |-> dos, top |-> top], before),
                     profile_button, PROFILING_AVAILABLE, before)
    ELSE run' = [NoRun EXCEPT !.messages = before \cup {"Please select a data source"}]

\* without a click the run reads neither the radio nor the uploaders, and
\* never reaches the name ProfileReport
NoClick ==
    [analyze_button |-> FALSE, data_source |-> "unread", missing |-> {},
     profile_button |-> FALSE, PROFILING_AVAILABLE |-> TRUE]

\* one run of the script
main(data_source, uploaded, analyze_button, analysis_type, profile_button, PROFILING_AVAILABLE) ==
    /\ UNCHANGED files
    /\ inputs' = IF ~analyze_button
                 THEN [NoClick EXCEPT
                         !.profile_button = profile_button,
                         !.PROFILING_AVAILABLE = ~profile_button \/ PROFILING_AVAILABLE]
                 ELSE [NoClick EXCEPT
                         !.analyze_button = TRUE,
                         !.data_source = data_source,
                         !.missing = IF data_source = UPLOAD
                                     THEN {slot \in SLOTS : uploaded[slot] = <<>>}
                                     ELSE {}]
    /\ IF ~analyze_button
       THEN /\ session_state' = TablesAfterRender(session_state, analysis_type)
            /\ Render(session_state', analysis_type, {}, profile_button,
                      PROFILING_AVAILABLE)
       ELSE IF data_source = UPLOAD /\ ~all(uploaded)
       THEN /\ session_state' = session_state
            /\ run' = [NoRun EXCEPT
                        !.outcome = "upload_error",
                        !.messages = {"Please upload all 5 CSV files to proceed!"}]
       ELSE IF data_source = UPLOAD /\ ReadError(uploaded) # "none"
       THEN /\ session_state' = session_state
            /\ run' = [NoRun EXCEPT !.outcome = "exception",
                                    !.error = ReadError(uploaded)]
       ELSE IF data_source = UPLOAD
       THEN /\ session_state' = TablesAfterRender(
                                    StoreTables(session_state, ReadUploads(uploaded)),
                                    analysis_type)
            /\ Render(session_state', analysis_type,
                      {"All files uploaded successfully!"}, FALSE, TRUE)
       ELSE /\ session_state' = TablesAfterRender(
                                    StoreTables(session_state, generate_synthetic_data),
                                    analysis_type)
            /\ Render(session_state', analysis_type,
                      {"Synthetic data generated successfully!"}, FALSE, TRUE)

(* ------------------------------ actions -------------------------------- *)
\* the page is opened: nothing is stored and the first run shows the welcome
\* screen
Init ==
    /\ files \in Datasets
    /\ session_state = [key \in {} |-> TRUE]
    /\ inputs = NoClick
    /\ run = [NoRun EXCEPT !.messages = {"Please select a data source"}]

\* The selectbox keeps its value from run to run while it is rendered; a run
\* that does not reach it drops the value, and it starts again at its first
\* option.
selected_analysis ==
    IF run.analysis_type = "none" THEN "Login Analysis" ELSE run.analysis_type

\* "Analyze Uploaded Data" is clicked with all five files uploaded
AnalyzeUploadedData ==
    main(UPLOAD, Uploaded({}), TRUE, selected_analysis, FALSE, TRUE)

\* "Analyze Uploaded Data" is clicked with the last uploader or all of them
\* left empty
AnalyzeIncompleteUpload ==
    \E missing \in {{"service"}, SLOTS} :
        main(UPLOAD, Uploaded(missing), TRUE, selected_analysis, FALSE, TRUE)

\* "Generate & Analyze" is clicked
GenerateAndAnalyze ==
    main(GENERATE, NoUploads, TRUE, selected_analysis, FALSE, TRUE)

\* the user picks another analysis type in the selectbox of the rendered
\* dashboard
SelectAnalysisType ==
    /\ run.analysis_type # "none"
    /\ \E analysis_type \in ANALYSIS_TYPES \ {run.analysis_type} :
        main(UPLOAD, NoUploads, FALSE, analysis_type, FALSE, TRUE)

\* the radio is switched, or an uploader is filled or cleared: the script
\* reruns with no button clicked
ChangeWidgets ==
    main(UPLOAD, NoUploads, FALSE, selected_analysis, FALSE, TRUE)

\* "Generate Pandas Profile Report" is clicked in tab 3 of the rendered
\* dashboard; the script runs again from its first line, import included, and
\* the import of ydata_profiling succeeds or fails with the installation
GenerateProfileReport ==
    /\ "detailed_analysis" \in run.rendered
    /\ \E PROFILING_AVAILABLE \in BOOLEAN :
        main(UPLOAD, NoUploads, FALSE, selected_analysis, TRUE, PROFILING_AVAILABLE)

Next ==
    \/ AnalyzeUploadedData
    \/ AnalyzeIncompleteUpload
    \/ GenerateAndAnalyze
    \/ SelectAnalysisType
    \/ ChangeWidgets
    \/ GenerateProfileReport

Spec == Init /\ [][Next]_vars

(* ------------------------------ claims --------------------------------- *)
Loaded == Get(session_state, "data_loaded", FALSE)

\* the last run went through the dashboard body
DashboardRun ==
    /\ Loaded
    /\ run.outcome \in {"dashboard", "exception"}
    /\ run.error \notin {"EmptyDataError", "ValueError"}

Did(step) == step \in run.rendered

CountWhere(df, Test(_)) == Cardinality({i \in 1..Len(df.rows) : Test(df.rows[i])})

Failed(r) == r.login_status = "failed"
Unauthenticated(r) == r.auth_status = "unauthenticated"
BlankOrDos(r) == r.request_type = "blank" \/ r.request_type = "dos_attack"

\* the three tables of the score are non-empty and carry the columns it reads
ScoreInputsOk ==
    /\ DashboardRun
    /\ HasColumn(session_state["df1_login"], "login_status")
    /\ HasColumn(session_state["df3_unauth"], "auth_status")
    /\ HasColumn(session_state["df4_requests"], "request_type")
    /\ Len(session_state["df1_login"].rows) > 0
    /\ Len(session_state["df3_unauth"].rows) > 0
    /\ Len(session_state["df4_requests"].rows) > 0

\* the weighted sum written over the row counts: L logins with f failed, U
\* attempts with u unauthenticated, R requests with a blank or dos_attack
WeightedSum(f, L, u, U, a, R) ==
    Normalize(300 * f * U * R + 400 * u * L * R + 300 * a * L * U, 10 * L * U * R)

\* C1: for non-empty login, auth-attempt and request tables the gauge returns
\* score = 0.3 * failed_login_rate + 0.4 * unauth_rate + 0.3 * attack_rate, each
\* rate being 100 * matching rows / rows; 8 of 100, 60 of 200 and 30 of 150 give
\* 20.4 and MEDIUM.
C1_ScoreIsWeightedSum ==
    ScoreInputsOk =>
        LET L == Len(session_state["df1_login"].rows)
            U == Len(session_state["df3_unauth"].rows)
            R == Len(session_state["df4_requests"].rows)
            f == CountWhere(session_state["df1_login"], Failed)
            u == CountWhere(session_state["df3_unauth"], Unauthenticated)
            a == CountWhere(session_state["df4_requests"], BlankOrDos)
        IN  /\ Did("gauge")
            /\ run.fraud_score = WeightedSum(f, L, u, U, a, R)
            /\ (L = 100 /\ f = 8 /\ U = 200 /\ u = 60 /\ R = 150 /\ a = 30) =>
                    /\ run.fraud_score = [num |-> 102, den |-> 5]
                    /\ run.risk_level = "MEDIUM"

C1_Witness ==
    /\ ScoreInputsOk
    /\ Len(session_state["df1_login"].rows) = 100
    /\ CountWhere(session_state["df1_login"], Failed) = 8
    /\ Len(session_state["df3_unauth"].rows) = 200
    /\ Len(session_state["df4_requests"].rows) = 150
    /\ run.fraud_score = [num |-> 102, den |-> 5]
    /\ run.risk_level = "MEDIUM"

\* C2: the tier is a step function of the score alone: below 15 LOW, from 15
\* below 30 MEDIUM, from 30 below 50 HIGH, from 50 CRITICAL; the values 15, 30
\* and 50 themselves give MEDIUM, HIGH and CRITICAL.
C2_TierIsStepFunction ==
    Did("gauge") =>
        LET n == run.fraud_score.num
            d == run.fraud_score.den
        IN  /\ run.risk_level \in {"LOW", "MEDIUM", "HIGH", "CRITICAL"}
            /\ (run.risk_level = "LOW") <=> (n < 15 * d)
            /\ (run.risk_level = "MEDIUM") <=> (15 * d <= n /\ n < 30 * d)
            /\ (run.risk_level = "HIGH") <=> (30 * d <= n /\ n < 50 * d)
            /\ (run.risk_level = "CRITICAL") <=> (50 * d <= n)

C2_Witness ==
    /\ Did("gauge")
    /\ run.fraud_score = [num |-> 50, den |-> 1]
    /\ run.risk_level = "CRITICAL"

\* C3: for non-empty tables, whatever their cell values, each of the three
\* rates and the score lie in [0, 100].
InPercentRange(q) == q.den > 0 /\ 0 <= q.num /\ q.num <= 100 * q.den

C3_RatesAndScoreInRange ==
    ScoreInputsOk =>
        /\ InPercentRange(failed_login_rate(session_state["df1_login"]))
        /\ InPercentRange(unauth_rate(session_state["df3_unauth"]))
        /\ InPercentRange(attack_rate(session_state["df4_requests"]))
        /\ Did("gauge")
        /\ InPercentRange(run.fraud_score)

C3_Witness ==
    /\ ScoreInputsOk
    /\ Did("gauge")
    /\ run.fraud_score = [num |-> 100, den |-> 1]

\* C4: with an empty login, auth-attempt or request table the rate is 0, the
\* score is still produced and the run ends without a division fault.
C4_EmptyTableGivesZeroRate ==
    (/\ DashboardRun
     /\ HasColumn(session_state["df1_login"], "login_status")
     /\ HasColumn(session_state["df3_unauth"], "auth_status")
     /\ HasColumn(session_state["df4_requests"], "request_type")
     /\ \/ Len(session_state["df1_login"].rows) = 0
        \/ Len(session_state["df3_unauth"].rows) = 0
        \/ Len(session_state["df4_requests"].rows) = 0)
    => /\ run.error # "ZeroDivisionError"
       /\ Did("gauge")

\* C5: a click on the analyze button with the upload source and a file missing
\* ends the run with the validation error: session state is left as it was
\* and nothing of the dashboard is rendered.
C5_IncompleteUploadBlocks ==
    [][(/\ inputs'.analyze_button
        /\ inputs'.data_source = UPLOAD
        /\ inputs'.missing # {})
       => /\ run'.outcome = "upload_error"
          /\ run'.messages = {"Please upload all 5 CSV files to proceed!"}
          /\ run'.error = "none"
          /\ run'.rendered = {}
          /\ run'.analysis_type = "none"
          /\ session_state' = session_state]_vars

C5_Witness ==
    /\ inputs.analyze_button
    /\ inputs.data_source = UPLOAD
    /\ inputs.missing = {"service"}
    /\ run.outcome = "upload_error"
    /\ Loaded

\* C6: an uploaded CSV with wrong columns or types is rejected before anything
\* is stored: no malformed table is ever held with data_loaded set, and none is
\* partially analysed.
ConformsTo(key, columns) == session_state[key].columns = columns

C6_MalformedNeverStored ==
    Loaded =>
        /\ ConformsTo("df1_login", LOGIN_COLUMNS)
        /\ ConformsTo("df2_duration", SESSION_COLUMNS)
        /\ ConformsTo("df3_unauth", UNAUTH_COLUMNS)
        /\ ConformsTo("df4_requests", REQUEST_COLUMNS)
        /\ ConformsTo("df5_services", SERVICE_COLUMNS)

\* the entries of a list: no IP twice, counts non-increasing, at most 10
IsRanking(list) ==
    /\ Len(list) <= 10
    /\ \A i, j \in 1..Len(list) : i < j => list[i].key # list[j].key
    /\ \A i \in 1..(Len(list) - 1) : list[i].count >= list[i + 1].count

\* list holds the IPs with the largest positive Count, each with its Count
IsTopOf(list, ips, Count(_)) ==
    /\ IsRanking(list)
    /\ \A i \in 1..Len(list) : list[i].key \in ips /\ list[i].count = Count(list[i].key)
    /\ \A ip \in ips :
          (Count(ip) > 0 /\ \A i \in 1..Len(list) : list[i].key # ip)
          => /\ Len(list) = 10
             /\ Count(ip) <= list[10].count

RequestIps == {session_state["df4_requests"].rows[i].ip_address :
                  i \in 1..Len(session_state["df4_requests"].rows)}

AttackCount(ip) ==
    CountWhere(session_state["df4_requests"],
               LAMBDA r : r.ip_address = ip /\ BlankOrDos(r))

DosCount(ip) ==
    CountWhere(session_state["df4_requests"],
               LAMBDA r : r.ip_address = ip /\ r.request_type = "dos_attack")

AttackChartShown ==
    /\ DashboardRun
    /\ run.analysis_type = "Attack Analysis"
    /\ Did("detailed_analysis")

\* C7 as stated: the per-IP list of the DOS anomaly report holds at most 10 IPs
\* in descending order, each counted over its blank and dos_attack requests.
C7_DosReportCountsBlankAndDos ==
    (DashboardRun /\ Did("dos") /\ run.dos_by_ip # <<>>) =>
        IsTopOf(run.dos_by_ip, RequestIps, AttackCount)

\* C7 as amended: the top-10 list of create_top_ips_chart holds the at most 10
\* IPs with the most blank or dos_attack requests, in descending order of that
\* count; the per-IP list of the DOS anomaly report holds the at most 10 IPs with
\* the most dos_attack requests, counted over dos_attack requests only.
C7_TopIpsCountBlankAndDos ==
    /\ AttackChartShown => IsTopOf(run.detail.top_ips, RequestIps, AttackCount)
    /\ (DashboardRun /\ Did("dos") /\ run.dos_by_ip # <<>>) =>
            IsTopOf(run.dos_by_ip, RequestIps, DosCount)

C7_Witness ==
    /\ AttackChartShown
    /\ Did("dos")
    /\ Cardinality({ip \in RequestIps : AttackCount(ip) > 0}) > 10
    /\ Len(run.detail.top_ips) = 10
    /\ Len(run.dos_by_ip) = 10
    /\ DosCount(run.detail.top_ips[1].key) > 0
    /\ AttackCount(run.detail.top_ips[1].key) > DosCount(run.detail.top_ips[1].key)
    /\ run.dos_by_ip[1].key # run.detail.top_ips[1].key

\* C8: the session anomaly set is exactly the sessions with duration_minutes
\* below 3 or above 180; durations of exactly 3 and 180 are not flagged, and the
\* reported count covers every flagged session, not only the 10 displayed.
OutsideLimits(r) == r.duration_minutes < 3 \/ r.duration_minutes > 180

StoredSessions == session_state["df2_duration"].rows

C8_SessionAnomalySet ==
    /\ (DashboardRun /\ Did("session")) =>
          /\ ToSet(run.suspicious_sessions)
                = {StoredSessions[i] : i \in {j \in 1..Len(StoredSessions) :
                                              OutsideLimits(StoredSessions[j])}}
          /\ Len(run.suspicious_sessions)
                = CountWhere(session_state["df2_duration"], OutsideLimits)
          /\ run.suspicious_count
                = CountWhere(session_state["df2_duration"], OutsideLimits)
          /\ \A i \in 1..Len(run.suspicious_sessions) :
                run.suspicious_sessions[i].duration_minutes \notin {3, 180}
          /\ run.suspicious_shown = head(run.suspicious_sessions, 10)
    /\ (DashboardRun /\ run.analysis_type = "Session Analysis"
            /\ Did("detailed_analysis")) =>
          /\ run.detail.suspicious_count
                = CountWhere(session_state["df2_duration"], OutsideLimits)
          /\ Len(run.detail.suspicious_shown) <= 10

C8_Witness ==
    /\ DashboardRun
    /\ Did("session")
    /\ run.analysis_type = "Session Analysis"
    /\ \E i, j \in 1..Len(StoredSessions) :
          StoredSessions[i].duration_minutes = 3 /\ StoredSessions[j].duration_minutes = 180
    /\ run.suspicious_count > 10
    /\ run.detail.suspicious_count > 10
    /\ Len(run.suspicious_shown) = 10

\* C9: the brute-force set is exactly the auth-attempt rows that are
\* unauthenticated with attempt_count above 10; an unauthenticated row with 10
\* attempts and an authenticated row with any count are not flagged.
IsBruteForce(r) == r.auth_status = "unauthenticated" /\ r.attempt_count > 10

StoredAttempts == session_state["df3_unauth"].rows

C9_BruteForceSet ==
    (DashboardRun /\ Did("brute_force")) =>
        /\ ToSet(run.brute_force)
              = {StoredAttempts[i] : i \in {j \in 1..Len(StoredAttempts) : IsBruteForce(StoredAttempts[j])}}
        /\ Len(run.brute_force) = CountWhere(session_state["df3_unauth"], IsBruteForce)
        /\ \A i \in 1..Len(run.brute_force) :
              /\ run.brute_force[i].auth_status # "authenticated"
              /\ run.brute_force[i].attempt_count # 10

C9_Witness ==
    /\ DashboardRun
    /\ Did("brute_force")
    /\ Len(run.brute_force) = 1
    /\ \E i \in 1..Len(StoredAttempts) :
          StoredAttempts[i].auth_status = "unauthenticated" /\ StoredAttempts[i].attempt_count = 10

\* C10: the failed-login list holds exactly the IPs with more than 5 failed
\* login rows (successful logins do not count, exactly 5 is not listed), in
\* order of non-increasing failed count.
LoginIps == {session_state["df1_login"].rows[i].ip_address :
                i \in 1..Len(session_state["df1_login"].rows)}

FailedCount(ip) ==
    CountWhere(session_state["df1_login"],
               LAMBDA r : r.ip_address = ip /\ r.login_status = "failed")

C10_FailedLoginList ==
    (DashboardRun /\ Did("failed_login")) =>
        /\ {run.critical_ips[i].key : i \in 1..Len(run.critical_ips)}
              = {ip \in LoginIps : FailedCount(ip) > 5}
        /\ \A i, j \in 1..Len(run.critical_ips) :
              i < j => run.critical_ips[i].key # run.critical_ips[j].key
        /\ \A i \in 1..Len(run.critical_ips) :
              run.critical_ips[i].count = FailedCount(run.critical_ips[i].key)
        /\ \A i \in 1..(Len(run.critical_ips) - 1) :
              run.critical_ips[i].count >= run.critical_ips[i + 1].count

C10_Witness ==
    /\ DashboardRun
    /\ Did("failed_login")
    /\ Len(run.critical_ips) = 2
    /\ run.critical_ips[1].count > run.critical_ips[2].count
    /\ run.critical_ips[1].key > run.critical_ips[2].key
    /\ \E ip \in LoginIps : FailedCount(ip) = 5
    /\ \E ip \in LoginIps : FailedCount(ip) = 0

\* the table with the cell of row i in column col set to value
Raise(df, i, col, value) == [df EXCEPT !.rows[i][col] = value]

TierRank(tier) ==
    CASE tier = "LOW" -> 0 [] tier = "MEDIUM" -> 1 [] tier = "HIGH" -> 2
      [] tier = "CRITICAL" -> 3

\* the gauge's result is at least the one the last run showed
NotLower(gauge) ==
    /\ gauge.err = "none"
    /\ RatLeq(run.fraud_score, gauge.fraud_score)
    /\ TierRank(run.risk_level) <= TierRank(gauge.risk_level)

StrictlyHigher(gauge) ==
    /\ RatLess(run.fraud_score, gauge.fraud_score)
    /\ TierRank(run.risk_level) < TierRank(gauge.risk_level)

\* C11: the score is non-decreasing in each rate: for the tables of every
\* load, with one more failed login, one more unauthenticated attempt or one
\* more blank/dos request in tables of the same sizes, the other two tables as
\* they are, the score is not lower and the tier is not a lower one.
C11_ScoreIsMonotone ==
    (ScoreInputsOk /\ inputs.analyze_button /\ Did("gauge")) =>
        LET login == session_state["df1_login"]
            unauth == session_state["df3_unauth"]
            request == session_state["df4_requests"]
        IN  /\ \A i \in 1..Len(login.rows) :
                  ~Failed(login.rows[i]) =>
                      NotLower(create_fraud_score_gauge(
                          Raise(login, i, "login_status", "failed"), unauth, request))
            /\ \A i \in 1..Len(unauth.rows) :
                  ~Unauthenticated(unauth.rows[i]) =>
                      NotLower(create_fraud_score_gauge(
                          login, Raise(unauth, i, "auth_status", "unauthenticated"), request))
            /\ \A i \in 1..Len(request.rows) :
                  ~BlankOrDos(request.rows[i]) =>
                      /\ NotLower(create_fraud_score_gauge(
                             login, unauth, Raise(request, i, "request_type", "blank")))
                      /\ NotLower(create_fraud_score_gauge(
                             login, unauth, Raise(request, i, "request_type", "dos_attack")))

C11_Witness ==
    /\ ScoreInputsOk
    /\ inputs.analyze_button
    /\ Did("gauge")
    /\ \E i \in 1..Len(session_state["df1_login"].rows) :
          /\ ~Failed(session_state["df1_login"].rows[i])
          /\ StrictlyHigher(create_fraud_score_gauge(
                 Raise(session_state["df1_login"], i, "login_status", "failed"),
                 session_state["df3_unauth"], session_state["df4_requests"]))
    /\ \E i \in 1..Len(session_state["df3_unauth"].rows) :
          /\ ~Unauthenticated(session_state["df3_unauth"].rows[i])
          /\ StrictlyHigher(create_fraud_score_gauge(
                 session_state["df1_login"],
                 Raise(session_state["df3_unauth"], i, "auth_status", "unauthenticated"),
                 session_state["df4_requests"]))

\* C12: for each of the five tables, the CSV the export step writes, read back
\* by the read of the upload path, gives the table again: the same columns in
\* the same order and the same rows with the same cells, a failure_reason of
\* "None" included.
C12_ExportReloadRoundTrip ==
    (DashboardRun /\ Did("export")) =>
        \A key \in TABLE_KEYS :
            read_csv(to_csv(session_state[key])) = session_state[key]

AnomalySteps == {"failed_login", "session", "brute_force", "dos", "suspended"}

Suspended(r) == r.status = "suspended"
DosAttack(r) == r.request_type = "dos_attack"

\* the stored tables carry the columns the dashboard reads
Conforming ==
    /\ ConformsTo("df1_login", LOGIN_COLUMNS)
    /\ ConformsTo("df2_duration", SESSION_COLUMNS)
    /\ ConformsTo("df3_unauth", UNAUTH_COLUMNS)
    /\ ConformsTo("df4_requests", REQUEST_COLUMNS)
    /\ ConformsTo("df5_services", SERVICE_COLUMNS)

\* the category's expander shows its "none detected" line and not its alert
ReportsNone(none, found) == none \in run.messages /\ found \notin run.messages

\* C13: a category of the anomaly report without a match shows its "none
\* detected" line, raises nothing, and the categories after it are evaluated.
C13_EmptyMatchIsReported ==
    DashboardRun =>
        /\ (Did("failed_login") /\ \A ip \in LoginIps : FailedCount(ip) <= 5) =>
                ReportsNone("No critical failed login patterns detected",
                            "Found IPs with >5 failed login attempts")
        /\ (Did("session") /\ CountWhere(session_state["df2_duration"], OutsideLimits) = 0) =>
                ReportsNone("No suspicious session durations detected",
                            "Found suspicious sessions")
        /\ (Did("brute_force") /\ CountWhere(session_state["df3_unauth"], IsBruteForce) = 0) =>
                ReportsNone("No brute force patterns detected",
                            "Detected potential brute force attacks!")
        /\ (Did("dos") /\ CountWhere(session_state["df4_requests"], DosAttack) = 0) =>
                ReportsNone("No DOS attacks detected", "Detected DOS attacks!")
        /\ (Did("suspended") /\ CountWhere(session_state["df5_services"], Suspended) = 0) =>
                ReportsNone("No suspended services found", "Found suspended services")
        /\ (Did("export") /\ Conforming) =>
                /\ run.outcome = "dashboard"
                /\ run.error = "none"
                /\ AnomalySteps \subseteq run.rendered

C13_Witness ==
    /\ DashboardRun
    /\ run.outcome = "dashboard"
    /\ AnomalySteps \subseteq run.rendered
    /\ Len(session_state["df5_services"].rows) > 0
    /\ run.messages \cap {"No critical failed login patterns detected",
                          "No suspicious session durations detected",
                          "No brute force patterns detected",
                          "No DOS attacks detected",
                          "No suspended services found"} = run.messages \ {"All files uploaded successfully!"}
    /\ Cardinality(run.messages) = 6

StoredServices == session_state["df5_services"].rows

\* C14: the suspended-service anomaly set is exactly the subscriptions whose
\* status is "suspended"; active, inactive and pending ones are not in it.
C14_SuspendedServiceSet ==
    (DashboardRun /\ Did("suspended")) =>
        /\ Len(run.suspended_services)
              = CountWhere(session_state["df5_services"], Suspended)
        /\ \A i \in 1..Len(run.suspended_services) :
              /\ run.suspended_services[i].status = "suspended"
              /\ run.suspended_services[i] \in ToSet(StoredServices)
        /\ ("Found suspended services" \in run.messages)
              <=> (\E i \in 1..Len(StoredServices) : Suspended(StoredServices[i]))

C14_Witness ==
    /\ DashboardRun
    /\ Did("suspended")
    /\ {"active", "inactive", "pending", "suspended"}
          \subseteq {StoredServices[i].status : i \in 1..Len(StoredServices)}
    /\ Len(run.suspended_services) = 1
    /\ Len(StoredServices) > 3

\* the five tables of a session state
Tables(state) == [key \in TABLE_KEYS \cap DOMAIN state |-> state[key]]

\* the run that leads to the primed state stored a load
LoadRun ==
    /\ inputs'.analyze_button
    /\ run'.outcome # "upload_error"
    /\ run'.error \notin {"EmptyDataError", "ValueError"}

\* what that load read or generated
LoadedTables ==
    IF inputs'.data_source = GENERATE THEN generate_synthetic_data
    ELSE ReadUploads(Uploaded({}))

\* what a completed dashboard run shows: score, tier and the five anomaly
\* sets (the critical IPs as a set, their order among equal counts being left
\* to the sort)
Results(r) ==
    [fraud_score |-> r.fraud_score, risk_level |-> r.risk_level,
     critical_ips |-> ToSet(r.critical_ips),
     suspicious_sessions |-> r.suspicious_sessions,
     brute_force |-> r.brute_force,
     dos_attacks |-> r.dos_attacks,
     suspended_services |-> r.suspended_services]

\* the analysis applied to five tables
Analysis(t) ==
    LET gauge == create_fraud_score_gauge(t["df1_login"], t["df3_unauth"], t["df4_requests"])
    IN
    [fraud_score |-> gauge.fraud_score,
     risk_level |-> gauge.risk_level,
     critical_ips |-> critical_ips(t["df1_login"]),
     suspicious_sessions |-> SuspiciousSessionDurations(t["df2_duration"]).suspicious_sessions,
     brute_force |-> BruteForceAttempts(t["df3_unauth"]).brute_force,
     dos_attacks |-> Select(t["df4_requests"], is_dos_attack(t["df4_requests"])).rows,
     suspended_services |-> SuspendedServices(t["df5_services"]).suspended_services]

\* C15: whatever runs came before, a run that renders the dashboard shows the
\* score, the tier and the anomaly sets of the analysis applied to the five
\* tables of the most recent successful load (those of this run when it loads,
\* else those session state already held), and two runs over the same stored
\* tables show the same results.
C15_ResultsFromLatestLoad ==
    [][/\ run'.outcome = "dashboard" =>
            Results(run') = Analysis(IF LoadRun THEN LoadedTables
                                     ELSE Tables(session_state))
       /\ (/\ run.outcome = "dashboard"
           /\ run'.outcome = "dashboard"
           /\ Tables(session_state') = Tables(session_state)) =>
            Results(run') = Results(run)]_vars

\* an upload has replaced generated tables and the dashboard shows a score
\* that is not the one of the generated tables
C15_Witness ==
    /\ Loaded
    /\ inputs.analyze_button
    /\ inputs.data_source = UPLOAD
    /\ run.outcome = "dashboard"
    /\ Results(run) = Analysis(ReadUploads(Uploaded({})))
    /\ Results(run) # Analysis(generate_synthetic_data)

\* the table with rows i and i + 1 exchanged
Swap(df, i) ==
    [df EXCEPT !.rows = [j \in 1..Len(df.rows) |->
                            IF j = i THEN df.rows[i + 1]
                            ELSE IF j = i + 1 THEN df.rows[i]
                            ELSE df.rows[j]]]

\* the rows of a selection with the number of times each occurs
Members(rows) ==
    [r \in ToSet(rows) |-> Cardinality({i \in 1..Len(rows) : rows[i] = r})]

\* the gauge gives the score and the tier the dashboard showed
SameScore(gauge) ==
    /\ gauge.err = "none"
    /\ gauge.fraud_score = run.fraud_score
    /\ gauge.risk_level = run.risk_level

\* the tables with rows i and i + 1 of one of them exchanged
Swaps(df) == {Swap(df, i) : i \in 1..(Len(df.rows) - 1)}

\* C16: score, tier and the members of every anomaly set (failed-login IPs
\* with their counts, session anomalies, brute-force rows, dos rows, suspended
\* services) do not depend on the order of the rows: after every load that
\* renders the dashboard, exchanging two neighbouring rows of any of the five
\* tables, the exchanges that generate every permutation, gives the score, the
\* tier and the members the dashboard showed.
C16_RowOrderIsIrrelevant ==
    (Loaded /\ inputs.analyze_button /\ run.outcome = "dashboard") =>
        LET login == session_state["df1_login"]
            unauth == session_state["df3_unauth"]
            request == session_state["df4_requests"]
        IN  /\ \A df \in Swaps(login) :
                /\ SameScore(create_fraud_score_gauge(df, unauth, request))
                /\ critical_ips(df) = ToSet(run.critical_ips)
            /\ \A df \in Swaps(session_state["df2_duration"]) :
                Members(SuspiciousSessionDurations(df).suspicious_sessions)
                    = Members(run.suspicious_sessions)
            /\ \A df \in Swaps(unauth) :
                /\ SameScore(create_fraud_score_gauge(login, df, request))
                /\ Members(BruteForceAttempts(df).brute_force) = Members(run.brute_force)
            /\ \A df \in Swaps(request) :
                /\ SameScore(create_fraud_score_gauge(login, unauth, df))
                /\ Members(Select(df, is_dos_attack(df)).rows) = Members(run.dos_attacks)
            /\ \A df \in Swaps(session_state["df5_services"]) :
                Members(SuspendedServices(df).suspended_services)
                    = Members(run.suspended_services)

\* a load whose tables hold neighbouring rows of both kinds: a failed login
\* next to another login, a dos request next to another request
C16_Witness ==
    /\ Loaded
    /\ inputs.analyze_button
    /\ run.outcome = "dashboard"
    /\ \E i \in 1..(Len(session_state["df1_login"].rows) - 1) :
            /\ Failed(session_state["df1_login"].rows[i])
            /\ ~Failed(session_state["df1_login"].rows[i + 1])
    /\ \E i \in 1..(Len(session_state["df4_requests"].rows) - 1) :
            /\ DosAttack(session_state["df4_requests"].rows[i])
            /\ ~DosAttack(session_state["df4_requests"].rows[i + 1])
    /\ run.dos_attacks # <<>>

\* C17: a run that renders the dashboard leaves the five stored tables as the
\* load stored them: after a run that loads, session state holds exactly the
\* tables read or generated, with no row or column added, removed or changed;
\* after any other run it holds the tables it held before.
C17_RenderLeavesTablesUnchanged ==
    [][IF LoadRun
       THEN Tables(session_state') = LoadedTables
       ELSE Tables(session_state') = Tables(session_state)]_vars

\* a run without a click has drawn the login trend chart and, under Attack
\* Analysis, the heatmap, and went on to the end of the dashboard
C17_Witness ==
    /\ Loaded
    /\ ~inputs.analyze_button
    /\ run.outcome = "dashboard"
    /\ run.analysis_type = "Attack Analysis"
    /\ run.rendered = ToSet(STEPS)
    /\ Len(session_state["df1_login"].rows) > 0
    /\ Len(session_state["df4_requests"].rows) > 0

\* the five tables one click stores: those of the uploaded files, when they
\* can be read, and the generated ones
Loads ==
    {generate_synthetic_data}
    \cup (IF ReadError(Uploaded({})) = "none" THEN {ReadUploads(Uploaded({}))} ELSE {})

\* C18: whenever data_loaded is true, session state holds all five tables and
\* the five come from one load: all from the uploaded files or all from the
\* generator, never some from one load and some from another.
C18_TablesFromOneLoad ==
    Loaded =>
        /\ TABLE_KEYS \subseteq DOMAIN session_state
        /\ \E load \in Loads : \A key \in TABLE_KEYS : session_state[key] = load[key]

\* an upload has been stored whose tables all differ from the generated ones
C18_Witness ==
    /\ Loaded
    /\ inputs.analyze_button
    /\ inputs.data_source = UPLOAD
    /\ \A key \in TABLE_KEYS : session_state[key] # generate_synthetic_data[key]
    /\ Tables(session_state) = ReadUploads(Uploaded({}))

\* the run that leads to the primed state is a click on "Analyze Uploaded
\* Data" with an uploader left empty
IncompleteUploadRun == inputs'.analyze_button /\ inputs'.missing # {}

\* C19: data_loaded is never reset, and once it is true every run renders the
\* dashboard from the stored tables, except a click with missing uploads, which
\* renders nothing and leaves the next run to render the dashboard again.
C19_DashboardAfterLoad ==
    [][Loaded =>
        /\ Loaded'
        /\ IF IncompleteUploadRun
           THEN run'.outcome = "upload_error" /\ run'.rendered = {}
           ELSE run'.outcome = "dashboard" /\ run'.rendered = ToSet(STEPS)]_vars

\* the part of C19 that does not depend on a run reaching its end: the flag
\* stays true and every run but the incomplete upload enters the dashboard
\* body or ends in an exception
DataLoadedIsKept ==
    [][Loaded =>
        /\ Loaded'
        /\ IF IncompleteUploadRun
           THEN run'.outcome = "upload_error" /\ Tables(session_state') = Tables(session_state)
           ELSE run'.outcome \in {"dashboard", "exception"}]_vars

\* C20: ProfileReport is called only when the import of the profiling library
\* succeeded: a run in which "Generate Pandas Profile Report" is clicked while
\* the import failed does not end in the NameError of the unbound name.
C20_ProfileReportGuarded ==
    (inputs.profile_button /\ ~inputs.PROFILING_AVAILABLE) => run.error # "NameError"

====
